---- MODULE Spec2Model ----
(***************************************************************************)
(* The tile38 collection (package collection): an id-ordered btree, a      *)
(* value-ordered btree and an r-tree over one set of items, a field table  *)
(* and four aggregate counters; and the operations that mutate and query   *)
(* it.                                                                     *)
(*                                                                         *)
(* Strings (ids, field names, string values) are sequences of bytes and    *)
(* are compared as Go compares strings.  Coordinates are integers.         *)
(*                                                                         *)
(* And the Kafka endpoint connection (package endpoint): one KafkaConn,    *)
(* its mutex, and goroutines calling Send and Expired on it while the      *)
(* clock advances.                                                         *)
(***************************************************************************)
EXTENDS Integers, Sequences, FiniteSets, TLC

VARIABLES col, call, latest, kafkaConn, gor, now, producers, seen

\* the variables of the Kafka endpoint connection (package endpoint): the
\* KafkaConn, the goroutines calling it, the clock, the producers dialed so
\* far and what has been observed of the calls
kvars == <<kafkaConn, gor, now, producers, seen>>

vars == <<col, call, latest, kafkaConn, gor, now, producers, seen>>

(***************************************************************************)
(* Bounds of the model.                                                    *)
(***************************************************************************)
\* longest fields argument list handed to Set, SetFields; a values list is
\* at most one longer
MaxArgs == 1
\* largest cursor offset handed to a query
MaxOffset == 1
\* the visitor returns false on its k-th call, k in 1..MaxLimit (0: never)
MaxLimit == 2
\* deepest sparse argument handed to Within / Intersects
MaxSparse == 1
\* longest list of field names handed to Set and SetFields where a list may
\* name a field twice
MaxNames == 2
\* candidates handed to the closure of a query in a run over many candidates
MaxCandidates == 520
\* goroutines calling Send and Expired on the one KafkaConn
MaxGoroutines == 2
\* producers dialed in one run: once reached, dialing fails
MaxProducers == 2
\* seconds the clock advances by in one step, and the last second of a run
TickSeconds == 10
MaxSeconds == 60

\* const yieldStep = 255
yieldStep == 255

\* const kafkaExpiresAfter = time.Second * 30, in seconds
kafkaExpiresAfter == 30

(***************************************************************************)
(* Go strings.                                                             *)
(***************************************************************************)
RECURSIVE StrLT(_, _)
StrLT(a, b) ==
    IF b = <<>> THEN FALSE
    ELSE IF a = <<>> THEN TRUE
    ELSE IF Head(a) # Head(b) THEN Head(a) < Head(b)
    ELSE StrLT(Tail(a), Tail(b))

StrLE(a, b) == a = b \/ StrLT(a, b)

RECURSIVE SeqsUpTo(_, _)
SeqsUpTo(S, n) ==
    IF n = 0 THEN {<<>>}
    ELSE LET shorter == SeqsUpTo(S, n - 1)
         IN  shorter \cup {Append(s, x) : s \in {t \in shorter : Len(t) = n - 1}, x \in S}

(***************************************************************************)
(* geojson.Object values, a tagged variant: k is the variant, r the        *)
(* rectangle <<minX, minY, maxX, maxY>> of a variant that has coordinates, *)
(* s the text of a string value.  The capability methods dispatch on k.    *)
(***************************************************************************)
NoRect == <<0, 0, 0, 0>>

Point(x, y) == [k |-> "Point", r |-> <<x, y, x, y>>, s |-> <<>>]

RectObj(x1, y1, x2, y2) == [k |-> "Rect", r |-> <<x1, y1, x2, y2>>, s |-> <<>>]

\* a spatial object without coordinates, e.g. an empty FeatureCollection
EmptyGeom == [k |-> "Empty", r |-> NoRect, s |-> <<>>]

\* collection.String: a non-spatial value
String(str) == [k |-> "String", r |-> NoRect, s |-> str]

\* a circle of radius m around (x, y), in the units of the coordinates
Circle(x, y, m) == [k |-> "Circle", r |-> <<x - m, y - m, x + m, y + m>>, s |-> <<>>]

\* the value that stands for a nil object
NoObj == [k |-> "nil", r |-> NoRect, s |-> <<>>]

objIsSpatial(obj) == obj.k \in {"Point", "Rect", "Empty", "Circle"}

Empty(obj) == obj.k \in {"Empty", "String", "nil"}

NumPoints(obj) ==
    CASE obj.k = "Point" -> 1
      [] obj.k = "Rect" -> 2
      [] obj.k = "Circle" -> 1
      [] OTHER -> 0

Rect(obj) == obj.r

StringOf(obj) == obj.s

Meters(obj) == IF obj.k = "Circle" THEN (obj.r[3] - obj.r[1]) \div 2 ELSE 0

Center(obj) == <<(obj.r[1] + obj.r[3]) \div 2, (obj.r[2] + obj.r[4]) \div 2>>

itemT(id, obj) == [id |-> id, obj |-> obj]

byID(a, b) == StrLT(a.id, b.id)

byValue(a, b) ==
    LET value1 == StringOf(a.obj)
        value2 == StringOf(b.obj)
    IN  IF StrLT(value1, value2) THEN TRUE
        ELSE IF StrLT(value2, value1) THEN FALSE
        ELSE byID(a, b)

(***************************************************************************)
(* btree.BTree: a set of items, no two of them equal under the tree's      *)
(* order.  by is "id" (byID) or "value" (byValue).                         *)
(***************************************************************************)
Less(by, a, b) == IF by = "id" THEN byID(a, b) ELSE byValue(a, b)

BtFind(tree, by, key) == {i \in tree : ~Less(by, i, key) /\ ~Less(by, key, i)}

BtReplace(tree, old, new) == [tree |-> (tree \ old) \cup new, old |-> old]

\* Set: insert or replace; old is the displaced item, if any
BtSet(tree, by, item) == BtReplace(tree, BtFind(tree, by, item), {item})

\* Delete: old is the removed item, if any
BtDelete(tree, by, key) == BtReplace(tree, BtFind(tree, by, key), {})

BtGet(tree, by, key) == BtFind(tree, by, key)

BtMin(tree, by) == CHOOSE i \in tree : \A j \in tree : ~Less(by, j, i)

RECURSIVE BtSorted(_, _)
RECURSIVE BtSortedFrom(_, _, _)
BtSortedFrom(tree, by, m) == <<m>> \o BtSorted(tree \ {m}, by)

BtSorted(tree, by) ==
    IF tree = {} THEN <<>> ELSE BtSortedFrom(tree, by, BtMin(tree, by))

Reverse(s) == [i \in 1..Len(s) |-> s[Len(s) + 1 - i]]

\* Ascend(pivot): the items >= pivot, ascending; Ascend(nil): all of them
BtAscend(tree, by, hasPivot, pivot) ==
    SelectSeq(BtSorted(tree, by), LAMBDA i : ~hasPivot \/ ~Less(by, i, pivot))

\* Descend(pivot): the items <= pivot, descending; Descend(nil): all of them
BtDescend(tree, by, hasPivot, pivot) ==
    SelectSeq(Reverse(BtSorted(tree, by)), LAMBDA i : ~hasPivot \/ ~Less(by, pivot, i))

(***************************************************************************)
(* geoindex.Index over rtree.RTree: the entries in insertion order.        *)
(***************************************************************************)
RECURSIVE RemoveFirst(_, _)
RemoveFirst(s, e) ==
    IF s = <<>> THEN <<>>
    ELSE IF Head(s) = e THEN Tail(s)
    ELSE <<Head(s)>> \o RemoveFirst(Tail(s), e)

RtInsert(index, rect, item) == Append(index, [rect |-> rect, item |-> item])

RtDelete(index, rect, item) == RemoveFirst(index, [rect |-> rect, item |-> item])

Overlaps(r, q) ==
    /\ r[1] <= q[3] /\ q[1] <= r[3]
    /\ r[2] <= q[4] /\ q[2] <= r[4]

\* Search(min, max, iter): the entries whose rectangle overlaps the query
RtSearch(index, rect) == SelectSeq(index, LAMBDA e : Overlaps(e.rect, rect))

(***************************************************************************)
(* The Collection struct and New().                                        *)
(***************************************************************************)
EmptyMap == [x \in {} |-> 0]

MapPut(f, key, v) == [x \in DOMAIN f \cup {key} |-> IF x = key THEN v ELSE f[x]]

MapDel(f, key) == [x \in DOMAIN f \ {key} |-> f[x]]

New ==
    [items |-> {}, index |-> <<>>, values |-> {},
     fieldMap |-> EmptyMap, fieldArr |-> <<>>, fieldValues |-> EmptyMap,
     weight |-> 0, points |-> 0, objects |-> 0, nobjects |-> 0]

setFieldValues(c, id, values) == [c EXCEPT !.fieldValues = MapPut(@, id, values)]

getFieldValues(c, id) ==
    IF id \in DOMAIN c.fieldValues THEN c.fieldValues[id] ELSE <<>>

deleteFieldValues(c, id) == [c EXCEPT !.fieldValues = MapDel(@, id)]

Count(c) == c.objects + c.nobjects

StringCount(c) == c.nobjects

PointCount(c) == c.points

TotalWeight(c) == c.weight

objWeight(c, item) ==
    (IF objIsSpatial(item.obj) THEN NumPoints(item.obj) * 16
                               ELSE Len(StringOf(item.obj)))
    + Len(getFieldValues(c, item.id)) * 8 + Len(item.id)

indexDelete(c, item) ==
    IF ~Empty(item.obj)
    THEN [c EXCEPT !.index = RtDelete(@, Rect(item.obj), item)]
    ELSE c

indexInsert(c, item) ==
    IF ~Empty(item.obj)
    THEN [c EXCEPT !.index = RtInsert(@, Rect(item.obj), item)]
    ELSE c

(***************************************************************************)
(* The field table.                                                        *)
(***************************************************************************)
RECURSIVE bsearchLoop(_, _, _, _)
bsearchLoop(arr, val, i, j) ==
    IF i < j
    THEN IF StrLE(arr[i + ((j - i) \div 2) + 1], val)
         THEN bsearchLoop(arr, val, i + ((j - i) \div 2) + 1, j)
         ELSE bsearchLoop(arr, val, i, i + ((j - i) \div 2))
    ELSE i

bsearchResult(arr, val, i) ==
    IF i > 0 /\ StrLE(val, arr[i])
    THEN [index |-> i - 1, found |-> TRUE]
    ELSE [index |-> i, found |-> FALSE]

bsearch(arr, val) == bsearchResult(arr, val, bsearchLoop(arr, val, 0, Len(arr)))

InsertAt(arr, index, field) ==
    SubSeq(arr, 1, index) \o <<field>> \o SubSeq(arr, index + 1, Len(arr))

\* addToFieldArr appending the name instead of inserting it at index
addToFieldArrAppends(c, field, r) ==
    IF ~r.found THEN [c EXCEPT !.fieldArr = Append(@, field)] ELSE c

addToFieldArrAt(c, field, r) ==
    IF ~r.found THEN [c EXCEPT !.fieldArr = InsertAt(@, r.index, field)] ELSE c

addToFieldArr(c, field) == addToFieldArrAt(c, field, bsearch(c.fieldArr, field))

RECURSIVE PadTo(_, _)
PadTo(fields, n) == IF Len(fields) >= n THEN fields ELSE PadTo(Append(fields, 0), n)

\* lines 309-312: read the old value, write the new one, store the row
setFieldStore(c, item, idx, value, fields) ==
    [c |-> setFieldValues(c, item.id, [fields EXCEPT ![idx + 1] = value]),
     updated |-> fields[idx + 1] # value]

\* lines 304-308: grow the row to cover idx, weight follows its length
setFieldGrow(c, item, idx, value, fields) ==
    setFieldStore(
        [c EXCEPT !.weight = @ - Len(fields) * 8 + Len(PadTo(fields, idx + 1)) * 8],
        item, idx, value, PadTo(fields, idx + 1))

setFieldAt(c, item, idx, value) ==
    setFieldGrow(c, item, idx, value, getFieldValues(c, item.id))

\* lines 297-302: the column of the field, assigned on first use
setField(c, item, field, value) ==
    IF field \in DOMAIN c.fieldMap
    THEN setFieldAt(c, item, c.fieldMap[field], value)
    ELSE setFieldAt(
             addToFieldArr(
                 [c EXCEPT !.fieldMap = MapPut(@, field, Cardinality(DOMAIN @))],
                 field),
             item, Cardinality(DOMAIN c.fieldMap), value)

\* for idx, field := range fields { setField(item, field, values[idx]) }:
\* values[idx] panics (index out of range) when values is the shorter list
RECURSIVE setFieldLoop(_, _, _, _, _, _)
RECURSIVE setFieldLoopNext(_, _, _, _, _, _)
setFieldLoopNext(r, item, fields, values, i, n) ==
    setFieldLoop(r.c, item, fields, values, i + 1, IF r.updated THEN n + 1 ELSE n)

setFieldLoop(c, item, fields, values, i, n) ==
    IF i > Len(fields) THEN [c |-> c, updatedCount |-> n, panic |-> FALSE]
    ELSE IF i > Len(values) THEN [c |-> c, updatedCount |-> n, panic |-> TRUE]
    ELSE setFieldLoopNext(setField(c, item, fields[i], values[i]),
                          item, fields, values, i, n)

(***************************************************************************)
(* Set, Delete, Get, SetField, SetFields as functions of the collection.   *)
(***************************************************************************)
TheOne(S) == CHOOSE x \in S : TRUE

addPoints(c, n) == [c EXCEPT !.points = @ + n]

addWeight(c, n) == [c EXCEPT !.weight = @ + n]

\* removeOld without the values.Delete of a non-spatial item
removeOldStale(c, oldItem) ==
    IF objIsSpatial(oldItem.obj)
    THEN [indexDelete(c, oldItem) EXCEPT !.objects = @ - 1]
    ELSE [c EXCEPT !.nobjects = @ - 1]

\* lines 171-177 (Set), 233-241 (Delete): out of the r-tree or the value index
removeOld(c, oldItem) ==
    IF objIsSpatial(oldItem.obj)
    THEN [indexDelete(c, oldItem) EXCEPT !.objects = @ - 1]
    ELSE [c EXCEPT !.values = BtDelete(@, "value", oldItem).tree, !.nobjects = @ - 1]

\* lines 179-183: the old item's points, then its weight
SetSubtractOld(c, oldItem) ==
    addWeight(addPoints(c, 0 - NumPoints(oldItem.obj)), 0 - objWeight(c, oldItem))

\* SetOldResult without newFields = oldFields
SetOldResultNoRow(c, id, oldItem) ==
    [c |-> c, hasOld |-> TRUE, oldObject |-> oldItem.obj, oldFields |-> <<>>]

\* lines 185-188
SetOldResult(c, id, oldItem) ==
    [c |-> c, hasOld |-> TRUE, oldObject |-> oldItem.obj,
     oldFields |-> getFieldValues(c, id)]

\* lines 167-189: upsert into the key index, drop the displaced item
SetDisplace(c, newItem, r) ==
    IF r.old # {}
    THEN SetOldResult(
             SetSubtractOld(removeOld([c EXCEPT !.items = r.tree], TheOne(r.old)),
                            TheOne(r.old)),
             newItem.id, TheOne(r.old))
    ELSE [c |-> [c EXCEPT !.items = r.tree], hasOld |-> FALSE, oldObject |-> NoObj,
          oldFields |-> <<>>]

SetRemoveOld(c, newItem) == SetDisplace(c, newItem, BtSet(c.items, "id", newItem))

\* insertNew counting a spatial item only when it enters the r-tree
insertNewUncounted(c, newItem) ==
    IF objIsSpatial(newItem.obj)
    THEN IF ~Empty(newItem.obj)
         THEN [indexInsert(c, newItem) EXCEPT !.objects = @ + 1]
         ELSE c
    ELSE [c EXCEPT !.values = BtSet(@, "value", newItem).tree, !.nobjects = @ + 1]

\* lines 191-197: into the r-tree or the value index
insertNew(c, newItem) ==
    IF objIsSpatial(newItem.obj)
    THEN [indexInsert(c, newItem) EXCEPT !.objects = @ + 1]
    ELSE [c EXCEPT !.values = BtSet(@, "value", newItem).tree, !.nobjects = @ + 1]

\* lines 199-203: the new item's points and weight
SetAddNew(c, newItem) ==
    addWeight(addPoints(c, NumPoints(newItem.obj)), objWeight(c, newItem))

SetInsertNew(c, newItem) == SetAddNew(insertNew(c, newItem), newItem)

SetLoopResult(r, id) ==
    [c |-> r.c, newFields |-> getFieldValues(r.c, id), panic |-> r.panic]

\* SetWriteFields without c.weight -= len(newFields) * 8
SetWriteFieldsNoSubtract(c, newItem, newFields, hasFields, fields, values) ==
    IF ~hasFields
    THEN IF Len(values) > 0
         THEN [c |-> addWeight(setFieldValues(c, newItem.id, values), Len(values) * 8),
               newFields |-> values, panic |-> FALSE]
         ELSE [c |-> c, newFields |-> newFields, panic |-> FALSE]
    ELSE SetLoopResult(setFieldLoop(c, newItem, fields, values, 1, 0), newItem.id)

\* lines 205-219: the fields; newFields starts as the old item's row
SetWriteFields(c, newItem, newFields, hasFields, fields, values) ==
    IF ~hasFields
    THEN IF Len(values) > 0
         THEN [c |-> addWeight(
                        setFieldValues(addWeight(c, 0 - Len(newFields) * 8),
                                       newItem.id, values),
                        Len(values) * 8),
               newFields |-> values, panic |-> FALSE]
         ELSE [c |-> c, newFields |-> newFields, panic |-> FALSE]
    ELSE SetLoopResult(setFieldLoop(c, newItem, fields, values, 1, 0), newItem.id)

SetResult(a, w) ==
    [c |-> w.c, hasOld |-> a.hasOld, oldObject |-> a.oldObject,
     oldFields |-> a.oldFields, newFields |-> w.newFields, panic |-> w.panic]

SetWithOld(a, newItem, hasFields, fields, values) ==
    SetResult(a, SetWriteFields(SetInsertNew(a.c, newItem), newItem, a.oldFields,
                                hasFields, fields, values))

Set(c, id, obj, hasFields, fields, values) ==
    SetWithOld(SetRemoveOld(c, itemT(id, obj)), itemT(id, obj),
               hasFields, fields, values)

(***************************************************************************)
(* oldFields is a slice: it shares its array with the row of the id until  *)
(* an append in setField (line 306) finds the array full and moves the row *)
(* to a new one.  cap is the capacity of the array when Set is called; the *)
(* row has not moved as long as it is no longer than cap.  view is what    *)
(* the caller reads from oldFields: fields[idx] = value (line 310) shows   *)
(* in it when idx is within the slice and the row has not moved.           *)
(***************************************************************************)
columnOf(c, field) ==
    IF field \in DOMAIN c.fieldMap THEN c.fieldMap[field]
    ELSE Cardinality(DOMAIN c.fieldMap)

aliasWrite(view, idx, value, rowLen, cap) ==
    IF idx < Len(view) /\ rowLen <= cap
    THEN [view EXCEPT ![idx + 1] = value]
    ELSE view

RECURSIVE aliasLoop(_, _, _, _, _, _, _)
aliasLoop(c, item, fields, values, i, view, cap) ==
    IF i > Len(fields) \/ i > Len(values) THEN view
    ELSE aliasLoop(setField(c, item, fields[i], values[i]).c, item, fields, values,
                   i + 1,
                   aliasWrite(view, columnOf(c, fields[i]), values[i],
                              Len(getFieldValues(c, item.id)), cap),
                   cap)

\* what the caller reads from the oldFields that Set returned
oldFieldsRead(c, id, obj, hasFields, fields, values, cap) ==
    IF hasFields
    THEN aliasLoop(SetInsertNew(SetRemoveOld(c, itemT(id, obj)).c, itemT(id, obj)),
                   itemT(id, obj), fields, values, 1,
                   SetRemoveOld(c, itemT(id, obj)).oldFields, cap)
    ELSE SetRemoveOld(c, itemT(id, obj)).oldFields

\* DeleteResult without deleteFieldValues
DeleteResultKeepsRow(c, id, oldItem) ==
    [c |-> c, obj |-> oldItem.obj, fields |-> getFieldValues(c, id), ok |-> TRUE]

\* lines 242-247
DeleteResult(c, id, oldItem) ==
    [c |-> deleteFieldValues(c, id), obj |-> oldItem.obj,
     fields |-> getFieldValues(c, id), ok |-> TRUE]

\* lines 232-243: Delete guards indexDelete with the test indexDelete makes
DeleteItem(c, id, oldItem) ==
    DeleteResult(
        addPoints(addWeight(removeOld(c, oldItem), 0 - objWeight(c, oldItem)),
                  0 - NumPoints(oldItem.obj)),
        id, oldItem)

DeleteFound(c, id, r) ==
    IF r.old = {}
    THEN [c |-> c, obj |-> NoObj, fields |-> <<>>, ok |-> FALSE]
    ELSE DeleteItem([c EXCEPT !.items = r.tree], id, TheOne(r.old))

Delete(c, id) == DeleteFound(c, id, BtDelete(c.items, "id", itemT(id, NoObj)))

GetFound(c, id, itemV) ==
    IF itemV = {}
    THEN [obj |-> NoObj, fields |-> <<>>, ok |-> FALSE]
    ELSE [obj |-> TheOne(itemV).obj, fields |-> getFieldValues(c, id), ok |-> TRUE]

Get(c, id) == GetFound(c, id, BtGet(c.items, "id", itemT(id, NoObj)))

SetFieldResult(r) == [c |-> r.c, updated |-> r.updated, ok |-> TRUE]

\* SetFieldFound assigning the column before it looks the id up
SetFieldFoundAssignsFirst(c, itemV, field, value) ==
    IF itemV = {}
    THEN [c |-> IF field \in DOMAIN c.fieldMap THEN c
                ELSE addToFieldArr(
                         [c EXCEPT !.fieldMap = MapPut(@, field, Cardinality(DOMAIN @))],
                         field),
          updated |-> FALSE, ok |-> FALSE]
    ELSE SetFieldResult(setField(c, TheOne(itemV), field, value))

SetFieldFound(c, itemV, field, value) ==
    IF itemV = {}
    THEN [c |-> c, updated |-> FALSE, ok |-> FALSE]
    ELSE SetFieldResult(setField(c, TheOne(itemV), field, value))

SetField(c, id, field, value) ==
    SetFieldFound(c, BtGet(c.items, "id", itemT(id, NoObj)), field, value)

SetFieldsResult(r) ==
    [c |-> r.c, updatedCount |-> r.updatedCount, ok |-> TRUE, panic |-> r.panic]

SetFieldsFound(c, itemV, inFields, inValues) ==
    IF itemV = {}
    THEN [c |-> c, updatedCount |-> 0, ok |-> FALSE, panic |-> FALSE]
    ELSE SetFieldsResult(setFieldLoop(c, TheOne(itemV), inFields, inValues, 1, 0))

SetFields(c, id, inFields, inValues) ==
    SetFieldsFound(c, BtGet(c.items, "id", itemT(id, NoObj)), inFields, inValues)

(***************************************************************************)
(* Queries.  q holds the arguments of one query call:                      *)
(*   op, desc, start, end, obj, sparse   the operation and its arguments   *)
(*   cursor, offset                      a cursor, or nil, and its Offset()*)
(*   limit                               the visitor returns false on its  *)
(*                                       limit-th call (0: never)          *)
(* st is the state of the traversal: the closure variables of the call,    *)
(* and log, the calls made on the cursor, the scheduler and the visitor.   *)
(***************************************************************************)
Ev(e, n, id) == [e |-> e, n |-> n, id |-> id]

Offset(q) == IF q.cursor THEN q.offset ELSE 0

\* if cursor != nil { offset = cursor.Offset(); cursor.Step(offset) }
StartCursor(q) == IF q.cursor THEN <<Ev("Step(offset)", q.offset, <<>>)>> ELSE <<>>

StartState(q, log) ==
    [count |-> 0, cont |-> TRUE, keepon |-> TRUE, log |-> log, visited |-> <<>>,
     nvis |-> 0, ret |-> TRUE, vfalse |-> FALSE, crossed |-> FALSE,
     matches |-> {}, match |-> FALSE, ok |-> TRUE, alive |-> TRUE]

\* nextStep yielding when step & yieldStep is zero
nextStepYieldOnZero(step, log) ==
    IF step % (yieldStep + 1) = 0
    THEN Append(log, Ev("Gosched", step, <<>>))
    ELSE log

\* step&yieldStep == yieldStep, yieldStep + 1 a power of two
nextStepYield(step, log) ==
    IF step % (yieldStep + 1) = yieldStep
    THEN Append(log, Ev("Gosched", step, <<>>))
    ELSE log

nextStepCursor(q, log) ==
    IF q.cursor THEN Append(log, Ev("Step(1)", 1, <<>>)) ELSE log

nextStep(step, q, st) ==
    [st EXCEPT !.log = nextStepCursor(q, nextStepYield(step, @))]

\* the caller's visitor
Visitor(q, n) == ~(q.limit > 0 /\ n >= q.limit)

Visit(q, st, id) ==
    [st EXCEPT !.log = Append(@, Ev("visit", 0, id)),
               !.visited = Append(@, id),
               !.nvis = @ + 1,
               !.ret = Visitor(q, st.nvis + 1),
               !.vfalse = @ \/ ~Visitor(q, st.nvis + 1)]

Counted(st) == [st EXCEPT !.count = @ + 1]

\* keepon = iterator(...); return keepon
KeepOn(st) == [st EXCEPT !.keepon = st.ret, !.cont = st.ret]

\* iterScan skipping with count < offset
iterScanOffByOne(q, st, item) ==
    IF st.count + 1 < Offset(q)
    THEN Counted(st)
    ELSE KeepOn(Visit(q, nextStep(st.count + 1, q, Counted(st)), item.id))

\* the iter closure of Scan, SearchValues, SearchValuesRange,
\* ScanGreaterOrEqual and Nearby
iterScan(q, st, item) ==
    IF st.count + 1 <= Offset(q)
    THEN Counted(st)
    ELSE KeepOn(Visit(q, nextStep(st.count + 1, q, Counted(st)), item.id))

\* the end test of ScanRange letting an id equal to end through
CrossedPastEnd(q, id) == IF ~q.desc THEN StrLT(q.end, id) ELSE StrLT(id, q.end)

Crossed(q, id) == IF ~q.desc THEN StrLE(q.end, id) ELSE StrLE(id, q.end)

\* iterRangeCheck clearing keepon when the item crossed end
iterRangeCheckClears(q, st, item) ==
    IF Crossed(q, item.id)
    THEN [st EXCEPT !.cont = FALSE, !.crossed = TRUE, !.keepon = FALSE]
    ELSE KeepOn(Visit(q, st, item.id))

\* lines 404-415: past end the closure returns false and leaves keepon alone
iterRangeCheck(q, st, item) ==
    IF Crossed(q, item.id)
    THEN [st EXCEPT !.cont = FALSE, !.crossed = TRUE]
    ELSE KeepOn(Visit(q, st, item.id))

\* the iter closure of ScanRange
iterScanRange(q, st, item) ==
    IF st.count + 1 <= Offset(q)
    THEN Counted(st)
    ELSE iterRangeCheck(q, nextStep(st.count + 1, q, Counted(st)), item)

bLT(a, b) == Less("value", a, b)

bGT(a, b) == Less("value", b, a)

pend(q) == itemT(<<>>, String(q.end))

pstart(q) == itemT(<<>>, String(q.start))

\* bGT(c.values, item, pend) && iter(item), bLT(c.values, item, pend) && iter(item)
iterValuesRange(q, st, item) ==
    IF (IF q.desc THEN bGT(item, pend(q)) ELSE bLT(item, pend(q)))
    THEN iterScan(q, st, item)
    ELSE [st EXCEPT !.cont = FALSE, !.crossed = TRUE]

Contains(outer, inner) ==
    /\ outer[1] <= inner[1] /\ inner[3] <= outer[3]
    /\ outer[2] <= inner[2] /\ inner[4] <= outer[4]

\* o.Within(obj), o.Intersects(obj) for points and rectangles
objWithin(o, obj) == Contains(Rect(obj), Rect(o))

objIntersects(o, obj) == Overlaps(Rect(o), Rect(obj))

Matches(q, o) ==
    IF q.op = "Within" THEN objWithin(o, q.obj) ELSE objIntersects(o, q.obj)

\* geoSearch: alive = iter(...); return alive
Alive(st, r) == [st EXCEPT !.keepon = r, !.cont = r]

\* the closure Within and Intersects hand to geoSearch when sparse = 0
iterGeo(q, st, item) ==
    IF st.count + 1 <= Offset(q)
    THEN Alive(Counted(st), TRUE)
    ELSE IF Matches(q, item.obj)
    THEN KeepOn(Visit(q, nextStep(st.count + 1, q, Counted(st)), item.id))
    ELSE Alive(nextStep(st.count + 1, q, Counted(st)), TRUE)

Iter(q, st, item) ==
    CASE q.op = "ScanRange" -> iterScanRange(q, st, item)
      [] q.op = "SearchValuesRange" -> iterValuesRange(q, st, item)
      [] q.op \in {"Within", "Intersects"} -> iterGeo(q, st, item)
      [] OTHER -> iterScan(q, st, item)

\* the index calls the closure on each candidate until it returns false
RECURSIVE Walk(_, _, _)
Walk(q, cands, st) ==
    IF cands = <<>> \/ ~st.cont THEN st
    ELSE Walk(q, Tail(cands), Iter(q, st, Head(cands)))

Items(entries) == [i \in 1..Len(entries) |-> entries[i].item]

(***************************************************************************)
(* Nearby: the fast-fail probe, then the kNN traversal.                    *)
(***************************************************************************)
\* geo.RectFromCenter(lat, lon, meters), in the units of the coordinates
RectFromCenter(center, meters) ==
    <<center[1] - meters, center[2] - meters, center[1] + meters, center[2] + meters>>

Max3(a, b, c) == IF a >= b /\ a >= c THEN a ELSE IF b >= c THEN b ELSE c

\* algo.Box: the squared distance of a point to a rectangle
BoxDist(pt, rect) ==
    Max3(rect[1] - pt[1], 0, pt[1] - rect[3]) * Max3(rect[1] - pt[1], 0, pt[1] - rect[3])
    + Max3(rect[2] - pt[2], 0, pt[2] - rect[4]) * Max3(rect[2] - pt[2], 0, pt[2] - rect[4])

Nearest(entries, pt) ==
    CHOOSE i \in 1..Len(entries) :
        \A j \in 1..Len(entries) :
            \/ BoxDist(pt, entries[i].rect) < BoxDist(pt, entries[j].rect)
            \/ BoxDist(pt, entries[i].rect) = BoxDist(pt, entries[j].rect) /\ i <= j

RECURSIVE RtNearby(_, _)
RECURSIVE RtNearbyFrom(_, _, _)
RtNearbyFrom(entries, pt, i) ==
    <<entries[i]>> \o RtNearby(SubSeq(entries, 1, i - 1) \o SubSeq(entries, i + 1, Len(entries)), pt)

\* index.Nearby: the entries by distance, nearest first
RtNearby(entries, pt) ==
    IF entries = <<>> THEN <<>> ELSE RtNearbyFrom(entries, pt, Nearest(entries, pt))

\* lines 718-738: no candidate in the circle's rectangle
NearbyNoCandidates(c, q) ==
    /\ q.obj.k = "Circle"
    /\ Meters(q.obj) > 0
    /\ RtSearch(c.index, RectFromCenter(Center(q.obj), Meters(q.obj))) = <<>>

Nearby(c, q) ==
    IF NearbyNoCandidates(c, q)
    THEN StartState(q, <<>>)
    ELSE Walk(q, Items(RtNearby(c.index, Center(q.obj))), StartState(q, StartCursor(q)))

(***************************************************************************)
(* Within and Intersects with sparse > 0.                                  *)
(***************************************************************************)
\* the four quadrants of geoSparseInner, in its order
Quads(rect) ==
    <<
      <<rect[1], rect[2] + (rect[4] - rect[2]) \div 2,
        rect[1] + (rect[3] - rect[1]) \div 2, rect[4]>>,
      <<rect[1] + (rect[3] - rect[1]) \div 2, rect[2] + (rect[4] - rect[2]) \div 2,
        rect[3], rect[4]>>,
      <<rect[1], rect[2],
        rect[1] + (rect[3] - rect[1]) \div 2, rect[2] + (rect[4] - rect[2]) \div 2>>,
      <<rect[1] + (rect[3] - rect[1]) \div 2, rect[2],
        rect[3], rect[2] + (rect[4] - rect[2]) \div 2>>
    >>

\* if match = o.Within(obj); match { ok = iter(id, o, fields) }; return match, ok
sparseMatch(q, st, item) ==
    IF Matches(q, item.obj)
    THEN [Visit(q, st, item.id) EXCEPT !.match = TRUE, !.ok = Visitor(q, st.nvis + 1)]
    ELSE [st EXCEPT !.match = FALSE, !.ok = FALSE]

\* the closure Within and Intersects hand to geoSparse
iterSparse(q, st, item) ==
    IF st.count + 1 <= Offset(q)
    THEN [Counted(st) EXCEPT !.match = FALSE, !.ok = TRUE]
    ELSE sparseMatch(q, nextStep(st.count + 1, q, Counted(st)), item)

\* geoSparse without matches[id] = true
sparseForgets(st, id) == st

sparseRemember(st, id) ==
    IF st.match THEN [st EXCEPT !.matches = @ \cup {id}] ELSE st

\* the closure geoSparse hands to geoSparseInner
iterMatches(q, st, item) ==
    IF item.id \notin st.matches
    THEN sparseRemember(iterSparse(q, st, item), item.id)
    ELSE [st EXCEPT !.match = FALSE, !.ok = TRUE]

\* the closure geoSparseInner hands to geoSearch at a leaf
leafResult(st) ==
    IF ~st.ok THEN [st EXCEPT !.alive = FALSE, !.cont = FALSE]
    ELSE [st EXCEPT !.cont = ~st.match]

RECURSIVE leafWalk(_, _, _)
leafWalk(q, cands, st) ==
    IF cands = <<>> \/ ~st.cont THEN st
    ELSE leafWalk(q, Tail(cands), leafResult(iterMatches(q, st, Head(cands))))

RECURSIVE geoSparseInner(_, _, _, _, _)
RECURSIVE geoSparseQuads(_, _, _, _, _, _)
\* for _, quad := range quads { if !geoSparseInner(quad, sparse-1, iter) { return false } }
geoSparseQuads(c, q, quads, sparse, i, st) ==
    IF ~st.alive THEN st
    ELSE IF i > Len(quads) THEN st
    ELSE geoSparseQuads(c, q, quads, sparse, i + 1,
                        geoSparseInner(c, q, quads[i], sparse - 1, st))

\* st.alive is what geoSparseInner returns
geoSparseInner(c, q, rect, sparse, st) ==
    IF sparse > 0
    THEN geoSparseQuads(c, q, Quads(rect), sparse, 1, [st EXCEPT !.alive = TRUE])
    ELSE leafWalk(q, Items(RtSearch(c.index, rect)),
                  [st EXCEPT !.alive = TRUE, !.cont = TRUE])

\* alive := true; c.geoSparseInner(...); return alive
geoSparse(c, q, st) ==
    [geoSparseInner(c, q, Rect(q.obj), q.sparse, st) EXCEPT !.keepon = TRUE]

geoSearch(c, q, rect, st) == Walk(q, Items(RtSearch(c.index, rect)), st)

(***************************************************************************)
(* The query operations: the final traversal state of one call.            *)
(***************************************************************************)
Scan(c, q) ==
    Walk(q,
         IF q.desc THEN BtDescend(c.items, "id", FALSE, itemT(<<>>, NoObj))
                   ELSE BtAscend(c.items, "id", FALSE, itemT(<<>>, NoObj)),
         StartState(q, StartCursor(q)))

ScanRange(c, q) ==
    Walk(q,
         IF q.desc THEN BtDescend(c.items, "id", TRUE, itemT(q.start, NoObj))
                   ELSE BtAscend(c.items, "id", TRUE, itemT(q.start, NoObj)),
         StartState(q, StartCursor(q)))

ScanGreaterOrEqual(c, q) ==
    Walk(q,
         IF q.desc THEN BtDescend(c.items, "id", TRUE, itemT(q.start, NoObj))
                   ELSE BtAscend(c.items, "id", TRUE, itemT(q.start, NoObj)),
         StartState(q, StartCursor(q)))

SearchValues(c, q) ==
    Walk(q,
         IF q.desc THEN BtDescend(c.values, "value", FALSE, itemT(<<>>, NoObj))
                   ELSE BtAscend(c.values, "value", FALSE, itemT(<<>>, NoObj)),
         StartState(q, StartCursor(q)))

SearchValuesRange(c, q) ==
    Walk(q,
         IF q.desc THEN BtDescend(c.values, "value", TRUE, pstart(q))
                   ELSE BtAscend(c.values, "value", TRUE, pstart(q)),
         StartState(q, StartCursor(q)))

\* Within and Intersects differ in the predicate alone (Matches)
Within(c, q) ==
    IF q.sparse > 0
    THEN geoSparse(c, q, StartState(q, StartCursor(q)))
    ELSE geoSearch(c, q, Rect(q.obj), StartState(q, StartCursor(q)))

Intersects(c, q) ==
    IF q.sparse > 0
    THEN geoSparse(c, q, StartState(q, StartCursor(q)))
    ELSE geoSearch(c, q, Rect(q.obj), StartState(q, StartCursor(q)))

RunQuery(c, q) ==
    CASE q.op = "Scan" -> Scan(c, q)
      [] q.op = "ScanRange" -> ScanRange(c, q)
      [] q.op = "ScanGreaterOrEqual" -> ScanGreaterOrEqual(c, q)
      [] q.op = "SearchValues" -> SearchValues(c, q)
      [] q.op = "SearchValuesRange" -> SearchValuesRange(c, q)
      [] q.op = "Within" -> Within(c, q)
      [] q.op = "Intersects" -> Intersects(c, q)
      [] q.op = "Nearby" -> Nearby(c, q)

(***************************************************************************)
(* The inputs of the mutating calls.                                       *)
(***************************************************************************)
Ids == {<<1>>, <<1, 2>>, <<2>>}
MutIds == {<<1>>, <<1, 2>>}
FieldNames == {<<1>>, <<2>>}
Vals == {1}

PointA == Point(4, 4)
RectB == RectObj(1, 1, 5, 5)
StrX == String(<<1>>)
StrY == String(<<1, 1>>)
MutObjs == {RectB, EmptyGeom, StrY}

FieldArgs == SeqsUpTo(FieldNames, MaxArgs) \ {<<>>}
ValueArgs == SeqsUpTo(Vals, MaxArgs + 1)

(***************************************************************************)
(* The Kafka endpoint connection.  kafkaConn is the KafkaConn: mu is the   *)
(* goroutine holding the mutex (0: unlocked), conn the producer it holds   *)
(* (0: nil), ex and t as in the struct, the clock in seconds.  producers   *)
(* has one entry per producer sarama.NewSyncProducer has returned: the     *)
(* number of times Close was called on it.  gor is, per goroutine, where   *)
(* it is in its call and what the call has done: pc, op, result, dialed    *)
(* (the call got a producer from NewSyncProducer), sent (the producer      *)
(* SendMessage was called on, 0: none), wasNil (conn.conn was nil at line  *)
(* 67), late (the call began after some Expired() had returned true).      *)
(* seen.returnedTrue: some Expired() has returned true; seen.attempt: the  *)
(* time of creation or of the last Send that was not refused as expired;   *)
(* seen.broken: a Send has failed in SendMessage or on a negative offset   *)
(* and no producer has been dialed since.                                  *)
(***************************************************************************)
Goroutines == 1..MaxGoroutines

\* the endpoints: Kafka.TLS off and on
Endpoints == {[TLS |-> FALSE], [TLS |-> TRUE]}

newKafkaConn(ep, time) == [ep |-> ep, mu |-> 0, conn |-> 0, ex |-> FALSE, t |-> time]

Idle == [pc |-> "idle", op |-> "none", result |-> "none", dialed |-> FALSE,
         sent |-> 0, wasNil |-> FALSE, late |-> FALSE]

KafkaInit(eps) ==
    /\ \E ep \in eps : kafkaConn = newKafkaConn(ep, 0)
    /\ gor = [g \in Goroutines |-> Idle]
    /\ now = 0
    /\ producers = <<>>
    /\ seen = [returnedTrue |-> FALSE, attempt |-> 0, broken |-> FALSE]

\* conn.close() that calls Close and keeps the producer in conn.conn
closeKeepsConn(k, ps) ==
    IF k.conn # 0
    THEN [k |-> k, ps |-> [ps EXCEPT ![k.conn] = @ + 1]]
    ELSE [k |-> k, ps |-> ps]

\* conn.close(): the KafkaConn and the producers after it
close(k, ps) ==
    IF k.conn # 0
    THEN [k |-> [k EXCEPT !.conn = 0], ps |-> [ps EXCEPT ![k.conn] = @ + 1]]
    ELSE [k |-> k, ps |-> ps]

\* the test of line 35 with >= for >
expiresAtBound(k, time) == time - k.t >= kafkaExpiresAfter

\* time.Now().Sub(conn.t) > kafkaExpiresAfter
expires(k, time) == time - k.t > kafkaExpiresAfter

\* the body of Expired, lines 34-41
Expired(k, ps, time) ==
    IF ~k.ex /\ expires(k, time)
    THEN [k |-> [close(k, ps).k EXCEPT !.ex = TRUE], ps |-> close(k, ps).ps]
    ELSE [k |-> k, ps |-> ps]

\* a goroutine calls Expired or Send and comes to conn.mu.Lock()
Call(g, op) ==
    /\ gor[g].pc = "idle"
    /\ gor' = [gor EXCEPT ![g] = [Idle EXCEPT !.pc = "lock", !.op = op,
                                              !.late = seen.returnedTrue]]
    /\ UNCHANGED <<col, call, latest, kafkaConn, now, producers, seen>>

Lock(g) ==
    /\ gor[g].pc = "lock"
    /\ kafkaConn.mu = 0
    /\ kafkaConn' = [kafkaConn EXCEPT !.mu = g]
    /\ gor' = [gor EXCEPT ![g].pc = "body"]
    /\ UNCHANGED <<col, call, latest, now, producers, seen>>

ExpiredBody(g) ==
    /\ gor[g].pc = "body"
    /\ gor[g].op = "Expired"
    /\ kafkaConn' = Expired(kafkaConn, producers, now).k
    /\ producers' = Expired(kafkaConn, producers, now).ps
    /\ gor' = [gor EXCEPT ![g].pc = "unlock",
                          ![g].result = IF kafkaConn'.ex THEN "true" ELSE "false"]
    /\ UNCHANGED <<col, call, latest, now, seen>>

\* lines 57-60 and the test of line 67
SendBody(g) ==
    /\ gor[g].pc = "body"
    /\ gor[g].op = "Send"
    /\ IF kafkaConn.ex
       THEN /\ gor' = [gor EXCEPT ![g].pc = "unlock", ![g].result = "errExpired"]
            /\ UNCHANGED <<kafkaConn, seen>>
       ELSE /\ kafkaConn' = [kafkaConn EXCEPT !.t = now]
            /\ seen' = [seen EXCEPT !.attempt = now]
            /\ gor' = [gor EXCEPT ![g].pc = IF kafkaConn.conn = 0 THEN "dial"
                                            ELSE "send",
                                  ![g].wasNil = kafkaConn.conn = 0]
    /\ UNCHANGED <<col, call, latest, now, producers>>

\* lines 70-75: newKafkaTLSConfig fails
SendTLSFails(g) ==
    /\ gor[g].pc = "dial"
    /\ kafkaConn.ep.TLS
    /\ gor' = [gor EXCEPT ![g].pc = "unlock", ![g].result = "tls error"]
    /\ UNCHANGED <<col, call, latest, kafkaConn, now, producers, seen>>

\* lines 87-90: sarama.NewSyncProducer fails
SendDialFails(g) ==
    /\ gor[g].pc = "dial"
    /\ gor' = [gor EXCEPT ![g].pc = "unlock", ![g].result = "dial error"]
    /\ UNCHANGED <<col, call, latest, kafkaConn, now, producers, seen>>

\* lines 87-92: sarama.NewSyncProducer returns a producer
SendDial(g) ==
    /\ gor[g].pc = "dial"
    /\ Len(producers) < MaxProducers
    /\ producers' = Append(producers, 0)
    /\ kafkaConn' = [kafkaConn EXCEPT !.conn = Len(producers) + 1]
    /\ gor' = [gor EXCEPT ![g].pc = "send", ![g].dialed = TRUE]
    /\ seen' = [seen EXCEPT !.broken = FALSE]
    /\ UNCHANGED <<col, call, latest, now>>

\* what conn.conn.SendMessage returns: an offset >= 0, an error, an offset < 0
Replies == {"nil", "send error", "invalid kafka reply"}

\* lines 106-117
SendMessage(g, reply) ==
    /\ gor[g].pc = "send"
    /\ kafkaConn' = IF reply = "nil" THEN kafkaConn ELSE close(kafkaConn, producers).k
    /\ producers' = IF reply = "nil" THEN producers ELSE close(kafkaConn, producers).ps
    /\ gor' = [gor EXCEPT ![g].pc = "unlock", ![g].result = reply,
                          ![g].sent = kafkaConn.conn]
    /\ seen' = [seen EXCEPT !.broken = reply # "nil"]
    /\ UNCHANGED <<col, call, latest, now>>

\* the deferred conn.mu.Unlock() and the return
Unlock(g) ==
    /\ gor[g].pc = "unlock"
    /\ kafkaConn' = [kafkaConn EXCEPT !.mu = 0]
    /\ gor' = [gor EXCEPT ![g].pc = "idle"]
    /\ seen' = [seen EXCEPT !.returnedTrue = @ \/ gor[g].result = "true"]
    /\ UNCHANGED <<col, call, latest, now, producers>>

Tick ==
    /\ now + TickSeconds <= MaxSeconds
    /\ now' = now + TickSeconds
    /\ UNCHANGED <<col, call, latest, kafkaConn, gor, producers, seen>>

InitKafka ==
    /\ col = New
    /\ call = [op |-> "New"]
    /\ latest = EmptyMap
    /\ KafkaInit(Endpoints)

NextKafka ==
    \/ \E g \in Goroutines : Call(g, "Expired")
    \/ \E g \in Goroutines : Call(g, "Send")
    \/ \E g \in Goroutines : Lock(g)
    \/ \E g \in Goroutines : ExpiredBody(g)
    \/ \E g \in Goroutines : SendBody(g)
    \/ \E g \in Goroutines : SendTLSFails(g)
    \/ \E g \in Goroutines : SendDialFails(g)
    \/ \E g \in Goroutines : SendDial(g)
    \/ \E g \in Goroutines, reply \in Replies : SendMessage(g, reply)
    \/ \E g \in Goroutines : Unlock(g)
    \/ Tick

SpecKafka == InitKafka /\ [][NextKafka]_vars

(***************************************************************************)
(* The mutating calls as actions.  call is the record of the last call:    *)
(* its name, its arguments and what it returned.                           *)
(***************************************************************************)
SetReturn(r, id, obj, mismatch) ==
    /\ col' = r.c
    /\ call' = [op |-> "Set", id |-> id, mismatch |-> mismatch,
                failed |-> IF r.panic THEN "panic: index out of range" ELSE "no"]
    /\ latest' = MapPut(latest, id, obj)
    /\ UNCHANGED kvars

SetCall(id, obj, hasFields, fields, values) ==
    SetReturn(Set(col, id, obj, hasFields, fields, values), id, obj,
              hasFields /\ Len(values) # Len(fields))

DeleteReturn(r, id) ==
    /\ col' = r.c
    /\ call' = [op |-> "Delete", id |-> id, ok |-> r.ok, obj |-> r.obj,
                fields |-> r.fields]
    /\ latest' = IF r.ok THEN MapDel(latest, id) ELSE latest
    /\ UNCHANGED kvars

DeleteCall(id) == DeleteReturn(Delete(col, id), id)

SetFieldReturn(r, id) ==
    /\ col' = r.c
    /\ call' = [op |-> "SetField", id |-> id, ok |-> r.ok, updated |-> r.updated]
    /\ UNCHANGED latest
    /\ UNCHANGED kvars

SetFieldCall(id, field, value) == SetFieldReturn(SetField(col, id, field, value), id)

SetFieldsReturn(r, id) ==
    /\ col' = r.c
    /\ call' = [op |-> "SetFields", id |-> id, ok |-> r.ok,
                updatedCount |-> r.updatedCount]
    /\ UNCHANGED latest
    /\ UNCHANGED kvars

SetFieldsCall(id, inFields, inValues) ==
    SetFieldsReturn(SetFields(col, id, inFields, inValues), id)

Init ==
    /\ col = New
    /\ call = [op |-> "New"]
    /\ latest = EmptyMap
    /\ KafkaInit({[TLS |-> FALSE]})

Next ==
    \/ \E id \in MutIds, obj \in MutObjs, values \in ValueArgs :
          SetCall(id, obj, FALSE, <<>>, values)
    \/ \E id \in MutIds, obj \in MutObjs, fields \in FieldArgs :
          \E values \in {v \in ValueArgs : Len(v) >= Len(fields) - 1} :
             SetCall(id, obj, TRUE, fields, values)
    \/ \E id \in MutIds : DeleteCall(id)
    \/ \E id \in MutIds, field \in FieldNames, value \in Vals :
          SetFieldCall(id, field, value)
    \/ \E id \in MutIds, inFields \in FieldArgs :
          \E inValues \in {v \in ValueArgs : Len(v) = Len(inFields)} :
             SetFieldsCall(id, inFields, inValues)

Spec == Init /\ [][Next]_vars

(***************************************************************************)
(* The inputs of the query calls.                                          *)
(***************************************************************************)
QObjs == {PointA, RectB, StrX, StrY}

\* start and end of ScanRange, the pivot of ScanGreaterOrEqual
IdBounds == {<<1>>, <<2>>}
\* start and end of SearchValuesRange
ValueBounds == {<<1>>, <<1, 1>>}
\* the areas of Within and Intersects: PointA is on the centre of the first
\* and RectB covers a part of each of its quadrants; RectB crosses the edge
\* of the second
Areas == {RectObj(0, 0, 8, 8), RectObj(2, 2, 10, 10)}
\* the targets of Nearby
Targets == {Point(0, 0), Circle(4, 4, 1), Circle(20, 20, 1)}

Query(op, desc, start, end, obj, sparse, cursor, offset, limit) ==
    [op |-> op, desc |-> desc, start |-> start, end |-> end, obj |-> obj,
     sparse |-> sparse, cursor |-> cursor, offset |-> offset, limit |-> limit]

Runs ==
    {<<TRUE, o, l>> : o \in 0..MaxOffset, l \in 0..MaxLimit}
    \cup {<<FALSE, 0, l>> : l \in 0..MaxLimit}

ScanArgs ==
    {Query("Scan", d, <<>>, <<>>, NoObj, 0, r[1], r[2], r[3]) :
        d \in BOOLEAN, r \in Runs}

ScanRangeArgs ==
    {Query("ScanRange", d, b[1], b[2], NoObj, 0, r[1], r[2], r[3]) :
        d \in BOOLEAN, b \in {x \in IdBounds \X IdBounds : x[1] # x[2]}, r \in Runs}

ScanGreaterOrEqualArgs ==
    {Query("ScanGreaterOrEqual", d, b, <<>>, NoObj, 0, r[1], r[2], r[3]) :
        d \in BOOLEAN, b \in IdBounds, r \in Runs}

SearchValuesArgs ==
    {Query("SearchValues", d, <<>>, <<>>, NoObj, 0, r[1], r[2], r[3]) :
        d \in BOOLEAN, r \in Runs}

SearchValuesRangeArgs ==
    {Query("SearchValuesRange", d, b[1], b[2], NoObj, 0, r[1], r[2], r[3]) :
        d \in BOOLEAN, b \in {x \in ValueBounds \X ValueBounds : x[1] # x[2]},
        r \in Runs}

WithinArgs ==
    {Query("Within", FALSE, <<>>, <<>>, a, n, r[1], r[2], r[3]) :
        a \in Areas, n \in 0..MaxSparse, r \in Runs}

IntersectsArgs ==
    {Query("Intersects", FALSE, <<>>, <<>>, a, n, r[1], r[2], r[3]) :
        a \in Areas, n \in 0..MaxSparse, r \in Runs}

NearbyArgs ==
    {Query("Nearby", FALSE, <<>>, <<>>, t, 0, r[1], r[2], r[3]) :
        t \in Targets, r \in Runs}

(***************************************************************************)
(* The query calls as actions.  A query changes nothing of the collection; *)
(* call records its arguments, the flag it returned, the ids handed to the *)
(* visitor and the log of the traversal.  ResumeCall is the second call of *)
(* a paged query: the same query again, with a visitor that never stops    *)
(* and the offset advanced by the limit of the first call; prev keeps what *)
(* the first call visited and first its arguments.                         *)
(***************************************************************************)
QueryOps ==
    {"Scan", "ScanRange", "ScanGreaterOrEqual", "SearchValues",
     "SearchValuesRange", "Within", "Intersects", "Nearby"}

QueryReturn(q, first, st, resumed, prev) ==
    /\ call' = [op |-> q.op, q |-> q, first |-> first, alive |-> st.keepon,
                visited |-> st.visited, log |-> st.log, vfalse |-> st.vfalse,
                crossed |-> st.crossed, count |-> st.count, resumed |-> resumed,
                prev |-> prev]
    /\ UNCHANGED <<col, latest>>
    /\ UNCHANGED kvars

\* queries are issued on the collection as the last mutating call left it:
\* a query after a query would find the same collection again
QueryCall(q) ==
    /\ call.op \notin QueryOps
    /\ QueryReturn(q, q, RunQuery(col, q), FALSE, <<>>)

Resumed(q) == [q EXCEPT !.offset = @ + q.limit, !.limit = 0]

ResumeCall ==
    /\ call.op \in QueryOps
    /\ ~call.resumed
    /\ call.q.cursor
    /\ call.q.limit > 0
    /\ QueryReturn(Resumed(call.q), call.q, RunQuery(col, Resumed(call.q)), TRUE,
                   call.visited)

\* what the cursor of a call has accumulated when the call returns: the
\* offset it was stepped by at the start and one per cursor.Step(1)
RECURSIVE CursorTotal(_)
CursorTotal(log) ==
    IF log = <<>> THEN 0
    ELSE (IF Head(log).e \in {"Step(offset)", "Step(1)"} THEN Head(log).n ELSE 0)
         + CursorTotal(Tail(log))

ResumedAtCursor(q, log) == [q EXCEPT !.offset = CursorTotal(log), !.limit = 0]

\* Within or Intersects, stopped by its visitor, called again with the offset
\* its cursor has accumulated and a visitor that never stops
ResumeCursorCall ==
    /\ call.op \in {"Within", "Intersects"}
    /\ ~call.resumed
    /\ call.q.cursor
    /\ call.vfalse
    /\ QueryReturn(ResumedAtCursor(call.q, call.log), call.q,
                   RunQuery(col, ResumedAtCursor(call.q, call.log)), TRUE,
                   call.visited)

NextQuery ==
    \/ \E id \in Ids, obj \in QObjs : SetCall(id, obj, FALSE, <<>>, <<>>)
    \/ \E id \in Ids : DeleteCall(id)
    \/ \E q \in ScanArgs : QueryCall(q)
    \/ \E q \in ScanRangeArgs : QueryCall(q)
    \/ \E q \in ScanGreaterOrEqualArgs : QueryCall(q)
    \/ \E q \in SearchValuesArgs : QueryCall(q)
    \/ \E q \in SearchValuesRangeArgs : QueryCall(q)
    \/ \E q \in WithinArgs : QueryCall(q)
    \/ \E q \in IntersectsArgs : QueryCall(q)
    \/ \E q \in NearbyArgs : QueryCall(q)
    \/ ResumeCall
    \/ ResumeCursorCall

SpecQuery == Init /\ [][NextQuery]_vars

(***************************************************************************)
(* The field table under longer lists: three field names, of which        *)
(* SetField takes any and the lists of Set and SetFields two, a list may   *)
(* name a field twice, the values 0 and 1.  The record of a Set keeps the  *)
(* rows it returned, that of a SetField its arguments.                     *)
(***************************************************************************)
FieldIds == {<<1>>}
FieldObjs == {RectB, StrY}
ColumnNames == {<<1>>, <<1, 1>>, <<2>>}
ColumnVals == {0, 1}

ListNames == {<<1, 1>>, <<2>>}

NameArgs == SeqsUpTo(ListNames, MaxNames) \ {<<>>}
RowArgs == SeqsUpTo(ColumnVals, MaxNames)
\* the capacity of the array of a row of length n: n, or room for more
Caps(n) == IF n = 0 THEN {0} ELSE {n, n + MaxNames}

SetRowsReturn(r, id, obj, hasFields, values, read) ==
    /\ col' = r.c
    /\ call' = [op |-> "Set", id |-> id, hasFields |-> hasFields,
                nvalues |-> Len(values), hasOld |-> r.hasOld,
                oldFields |-> read, newFields |-> r.newFields]
    /\ latest' = MapPut(latest, id, obj)
    /\ UNCHANGED kvars

SetRowsCall(id, obj, hasFields, fields, values, cap) ==
    SetRowsReturn(Set(col, id, obj, hasFields, fields, values), id, obj, hasFields,
                  values, oldFieldsRead(col, id, obj, hasFields, fields, values, cap))

SetColumnReturn(r, id, field, value) ==
    /\ col' = r.c
    /\ call' = [op |-> "SetField", id |-> id, ok |-> r.ok, updated |-> r.updated,
                field |-> field, value |-> value]
    /\ UNCHANGED latest
    /\ UNCHANGED kvars

SetColumnCall(id, field, value) ==
    SetColumnReturn(SetField(col, id, field, value), id, field, value)

NextFields ==
    \/ \E id \in FieldIds, obj \in FieldObjs, values \in RowArgs :
          SetRowsCall(id, obj, FALSE, <<>>, values, 0)
    \/ \E id \in FieldIds, fields \in NameArgs :
          \E values \in {v \in RowArgs : Len(v) = Len(fields)},
             cap \in Caps(Len(getFieldValues(col, id))) :
             SetRowsCall(id, RectB, TRUE, fields, values, cap)
    \/ \E id \in FieldIds : DeleteCall(id)
    \/ \E id \in FieldIds, field \in ColumnNames, value \in ColumnVals :
          SetColumnCall(id, field, value)
    \/ \E id \in FieldIds, inFields \in NameArgs :
          \E inValues \in {v \in RowArgs : Len(v) = Len(inFields)} :
             SetFieldsCall(id, inFields, inValues)

SpecFields == Init /\ [][NextFields]_vars

(***************************************************************************)
(* The closures of the query operations over a long run of candidates: the *)
(* index is left out and candidate n is handed to the closure of the       *)
(* operation as the item with id <<n>>, one step per candidate.  st.count  *)
(* is the closure's count; events holds what the closure did for the last  *)
(* candidate (runtime.Gosched with deadline.Check, cursor.Step(1), the     *)
(* visitor), the log and the visited ids of st are emptied after each      *)
(* candidate.  The visitor never returns false.                            *)
(***************************************************************************)
YieldOffsets == {0, 254, 255}

YieldRuns == {<<TRUE, o>> : o \in YieldOffsets} \cup {<<FALSE, 0>>}

YieldQueries ==
    {Query("Scan", FALSE, <<>>, <<>>, NoObj, 0, r[1], r[2], 0) : r \in YieldRuns}
    \cup {Query("ScanRange", FALSE, <<0>>, <<MaxCandidates>>, NoObj, 0, r[1], r[2], 0) :
             r \in YieldRuns}
    \cup {Query("SearchValuesRange", FALSE, <<1>>, <<2>>, NoObj, 0, r[1], r[2], 0) :
             r \in YieldRuns}
    \cup {Query("Nearby", FALSE, <<>>, <<>>, Point(0, 0), 0, r[1], r[2], 0) :
             r \in YieldRuns}
    \cup {Query("Within", FALSE, <<>>, <<>>, RectObj(2, 2, 10, 10), n, r[1], r[2], 0) :
             n \in {0, 1}, r \in YieldRuns}

\* candidate n: a string for the scans; for Within, with sparse = 0, by turns
\* the point, which is within the area, and the rectangle, which is not, and
\* with sparse > 0 the point
Candidate(q, n) ==
    itemT(<<n>>,
          IF q.op # "Within" THEN StrX
          ELSE IF q.sparse = 0 /\ n % 2 = 0 THEN RectB
          ELSE PointA)

\* with sparse > 0 every candidate is the first of a leaf
CandidateStep(q, st, item) ==
    IF q.sparse > 0
    THEN leafResult(iterMatches(q, [st EXCEPT !.cont = TRUE], item))
    ELSE Iter(q, st, item)

Going(q, st) == IF q.sparse > 0 THEN st.alive ELSE st.cont

AfterCandidate(c, st) ==
    [c EXCEPT !.n = @ + 1,
              !.st = [st EXCEPT !.log = <<>>, !.visited = <<>>],
              !.events = st.log]

YieldStart(q) ==
    /\ call.op = "New"
    /\ call' = [op |-> "candidates", q |-> q, n |-> 0, st |-> StartState(q, <<>>),
                events |-> StartCursor(q)]
    /\ UNCHANGED <<col, latest>>
    /\ UNCHANGED kvars

YieldNext ==
    /\ call.op = "candidates"
    /\ call.n < MaxCandidates
    /\ Going(call.q, call.st)
    /\ call' = AfterCandidate(call, CandidateStep(call.q, call.st,
                                                  Candidate(call.q, call.n + 1)))
    /\ UNCHANGED <<col, latest>>
    /\ UNCHANGED kvars

NextYield ==
    \/ \E q \in YieldQueries : YieldStart(q)
    \/ YieldNext

SpecYield == Init /\ [][NextYield]_vars

(***************************************************************************)
(* The claims.                                                             *)
(***************************************************************************)
IsLive(c, id) == \E i \in c.items : i.id = id

StoredObj(c, id) == (CHOOSE i \in c.items : i.id = id).obj

RECURSIVE SumPoints(_)
SumPoints(S) ==
    IF S = {} THEN 0
    ELSE NumPoints(TheOne(S).obj) + SumPoints(S \ {TheOne(S)})

RowLen(c, id) == IF id \in DOMAIN c.fieldValues THEN Len(c.fieldValues[id]) ELSE 0

NaiveItemWeight(c, i) ==
    (IF i.obj.k = "String" THEN Len(i.obj.s) ELSE 16 * NumPoints(i.obj))
    + Len(i.id) + 8 * RowLen(c, i.id)

RECURSIVE NaiveWeight(_, _)
NaiveWeight(c, S) ==
    IF S = {} THEN 0
    ELSE NaiveItemWeight(c, TheOne(S)) + NaiveWeight(c, S \ {TheOne(S)})

\* C1: after any sequence of Set, Delete, SetField and SetFields calls,
\* Count() is the number of ids in the key index, StringCount() the number
\* of non-spatial items and PointCount() the sum of NumPoints over the items.
C1_Counts ==
    /\ Count(col) = Cardinality({i.id : i \in col.items})
    /\ StringCount(col) = Cardinality({i \in col.items : i.obj.k = "String"})
    /\ PointCount(col) = SumPoints(col.items)

\* a SetFields call on a collection of an empty geometry and a string
C1_Witness ==
    /\ call.op = "SetFields"
    /\ call.ok
    /\ \E i \in col.items : i.obj = EmptyGeom
    /\ \E i \in col.items : i.obj.k = "String"

\* C2: after any sequence of Set (with fields, with a values row, with
\* neither), Delete, SetField and SetFields calls, TotalWeight() is the sum
\* over the items of (16 * NumPoints if spatial, else the length of the
\* string) + the length of the id + 8 * the length of the field row.
C2_Weight == TotalWeight(col) = NaiveWeight(col, col.items)

\* after a Set the collection holds a row of one value and a row of two; no
\* field has a column, so both rows were written whole from a values argument
C2_Witness ==
    /\ call.op = "Set"
    /\ DOMAIN col.fieldMap = {}
    /\ RowLen(col, call.id) = 1
    /\ \E id \in DOMAIN col.fieldValues : RowLen(col, id) = 2

\* C3: the key index holds one handle per live id, with the object of the
\* last Set of that id; that handle is in the r-tree iff the object is
\* spatial and not empty, in the value index iff it is non-spatial; no
\* other handle is in the r-tree or the value index.
LiveItems == {itemT(id, latest[id]) : id \in DOMAIN latest}

C3_Indexes ==
    /\ col.items = LiveItems
    /\ Cardinality(col.items) = Cardinality(DOMAIN latest)
    /\ {e.item : e \in {col.index[n] : n \in 1..Len(col.index)}}
          = {i \in LiveItems : objIsSpatial(i.obj) /\ ~Empty(i.obj)}
    /\ Len(col.index) = Cardinality({i \in LiveItems : objIsSpatial(i.obj) /\ ~Empty(i.obj)})
    /\ \A n \in 1..Len(col.index) : col.index[n].rect = Rect(col.index[n].item.obj)
    /\ col.values = {i \in LiveItems : ~objIsSpatial(i.obj)}

\* after a Set the collection holds a rectangle, which is in the r-tree, and
\* an empty geometry, which is in neither index
C3_Witness ==
    /\ call.op = "Set"
    /\ col.values = {}
    /\ Len(col.index) = 1
    /\ Cardinality(col.items) = 2
    /\ col.nobjects = 0

\* C4: Delete of a live id returns ok with the stored object and field row,
\* removes the row and makes Get of the id fail; Delete of an id that is
\* not live returns not ok and changes nothing of the collection.
C4_Delete ==
    [][call'.op = "Delete" =>
          IF IsLive(col, call'.id)
          THEN /\ call'.ok
               /\ call'.obj = StoredObj(col, call'.id)
               /\ call'.fields = getFieldValues(col, call'.id)
               /\ call'.id \notin DOMAIN col'.fieldValues
               /\ ~Get(col', call'.id).ok
          ELSE /\ ~call'.ok
               /\ col' = col]_vars

\* a Delete returned an item and its field row, and another item stays
C4_Witness ==
    /\ call.op = "Delete"
    /\ call.ok
    /\ Len(call.fields) = 2
    /\ col.items # {}

\* C9: SetField and SetFields on an id that is not in the collection fail
\* and change nothing of the collection.
C9_NoSuchId ==
    [][(call'.op \in {"SetField", "SetFields"} /\ ~IsLive(col, call'.id)) =>
          /\ ~call'.ok
          /\ col' = col
          /\ call'.op = "SetField" => ~call'.updated
          /\ call'.op = "SetFields" => call'.updatedCount = 0]_vars

\* a SetField on a missing id of a collection that holds another item,
\* before any field has a column
C9_Witness ==
    /\ call.op = "SetField"
    /\ ~call.ok
    /\ col.items # {}
    /\ DOMAIN col.fieldMap = {}

\* C10: Set with a fields list and a values list of another length fails
\* with ArgumentMismatch and changes nothing of the collection.
C10_ArgumentMismatch ==
    [][(call'.op = "Set" /\ call'.mismatch) =>
          /\ call'.failed = "ArgumentMismatch"
          /\ col' = col]_vars

IsSparse(c) == c.op \in {"Within", "Intersects"} /\ c.q.sparse > 0

PagedOps ==
    {"Scan", "ScanRange", "ScanGreaterOrEqual", "SearchValues",
     "SearchValuesRange", "Nearby"}

\* C5: for Scan, ScanRange, ScanGreaterOrEqual, SearchValues,
\* SearchValuesRange, Nearby, and Within and Intersects with sparse = 0, the
\* returned flag is false iff the visitor returned false on some candidate.
C5_Alive ==
    (call.op \in QueryOps /\ ~IsSparse(call)) => (call.alive = ~call.vfalse)

\* a range scan visited an item, then stopped at an item that crossed end,
\* and returned true
C5_Witness ==
    /\ call.op = "ScanRange"
    /\ call.crossed
    /\ call.alive
    /\ Len(call.visited) >= 1

\* C6: Within and Intersects with sparse > 0 return false whenever the
\* visitor returned false on a matched item.
C6_SparseAlive ==
    (call.op \in QueryOps /\ IsSparse(call) /\ call.vfalse) => ~call.alive

\* C7: a paged operation run with offset o and a visitor that returns false
\* on its k-th item, then run again with offset o + k to completion, hands
\* the visitor in all the sequence of items that one run with offset o to
\* completion hands it.
C7_CursorLaw ==
    (call.op \in PagedOps /\ call.resumed) =>
        call.prev \o call.visited
            = RunQuery(col, [call.first EXCEPT !.limit = 0]).visited

\* the first run started at offset 1 and was stopped by its visitor after
\* one item, the second run visited the rest
C7_Witness ==
    /\ call.op \in PagedOps
    /\ call.resumed
    /\ call.first.offset = 1
    /\ call.first.limit = 1
    /\ Len(call.prev) = 1
    /\ Len(call.visited) >= 1

\* C8: every query operation called with a cursor calls cursor.Step(offset)
\* exactly once, before every cursor.Step(1) and every call of the visitor.
C8_StepOffsetOnce ==
    (call.op \in QueryOps /\ call.q.cursor) =>
        /\ Len(call.log) >= 1
        /\ call.log[1] = Ev("Step(offset)", call.q.offset, <<>>)
        /\ \A n \in 2..Len(call.log) : call.log[n].e # "Step(offset)"

\* the value readable in column k (from 0) of the row of id
ReadColumn(c, id, k) == IF k < RowLen(c, id) THEN c.fieldValues[id][k + 1] ELSE 0

ChangedColumns(c, d, id) ==
    {k \in 0..Cardinality(DOMAIN d.fieldMap) : ReadColumn(c, id, k) # ReadColumn(d, id, k)}

\* C11: for a live id, SetField(id, f, v) leaves v in Get(id).fields at the
\* column of f and returns updated iff v differs from the value readable in
\* that column before the call; SetFields returns the number of columns
\* whose value after the call differs from its value before the call.
C11_FieldLaw ==
    [][/\ (call'.op = "SetField" /\ IsLive(col, call'.id)) =>
             /\ call'.ok
             /\ Get(col', call'.id).fields[col'.fieldMap[call'.field] + 1] = call'.value
             /\ call'.updated
                   = (ReadColumn(col, call'.id, col'.fieldMap[call'.field]) # call'.value)
       /\ (call'.op = "SetFields" /\ IsLive(col, call'.id)) =>
             /\ call'.ok
             /\ call'.updatedCount = Cardinality(ChangedColumns(col, col', call'.id))]_vars

FieldTableOk(c) ==
    /\ {c.fieldMap[f] : f \in DOMAIN c.fieldMap} = 0..(Cardinality(DOMAIN c.fieldMap) - 1)
    /\ Len(c.fieldArr) = Cardinality(DOMAIN c.fieldMap)
    /\ {c.fieldArr[n] : n \in 1..Len(c.fieldArr)} = DOMAIN c.fieldMap
    /\ \A n \in 1..(Len(c.fieldArr) - 1) : StrLT(c.fieldArr[n], c.fieldArr[n + 1])

ColumnsKept(c, d) ==
    \A f \in DOMAIN c.fieldMap : f \in DOMAIN d.fieldMap /\ d.fieldMap[f] = c.fieldMap[f]

\* C12: fieldMap maps the names one to one onto 0 .. |fieldMap| - 1, a name
\* keeps its column across every call, Delete included, and fieldArr lists
\* the names of fieldMap in strictly ascending order.
C12_FieldTable == []FieldTableOk(col) /\ [][ColumnsKept(col, col')]_vars

\* the three names have columns, assigned against their order, and the item
\* that brought them is deleted
C12_Witness ==
    /\ col.items = {}
    /\ DOMAIN col.fieldMap = ColumnNames
    /\ col.fieldMap[<<2>>] = 0
    /\ col.fieldMap[<<1>>] = 2

\* C16: Set without fields and with no values on an existing id replaces
\* the object, leaves the row of the id as it was and returns it as
\* newFields; on an id that is not live (never set, or deleted) it starts
\* from an empty row.
C16_RowInherited ==
    [][(call'.op = "Set" /\ ~call'.hasFields /\ call'.nvalues = 0) =>
          /\ StoredObj(col', call'.id) = latest'[call'.id]
          /\ call'.hasOld = IsLive(col, call'.id)
          /\ IF IsLive(col, call'.id)
             THEN /\ getFieldValues(col', call'.id) = getFieldValues(col, call'.id)
                  /\ (call'.id \in DOMAIN col'.fieldValues)
                        = (call'.id \in DOMAIN col.fieldValues)
                  /\ call'.newFields = getFieldValues(col, call'.id)
             ELSE /\ call'.id \notin DOMAIN col'.fieldValues
                  /\ call'.newFields = <<>>]_vars

\* a Set without fields and values put a string in the place of a rectangle
\* and returned the row of two values the id had
C16_Witness ==
    /\ call.op = "Set"
    /\ ~call.hasFields
    /\ call.nvalues = 0
    /\ call.hasOld
    /\ Len(call.newFields) = 2
    /\ col.nobjects = 1
    /\ \E id \in DOMAIN col.fieldValues : col.fieldValues[id] = call.newFields

\* C17: Set on an existing id returns as oldFields the row of the id with
\* the values it had before the call, whatever the call writes.
C17_OldFields ==
    [][(call'.op = "Set" /\ call'.hasOld) =>
          call'.oldFields = getFieldValues(col, call'.id)]_vars

InRange(desc, start, end, v) ==
    IF ~desc THEN StrLE(start, v) /\ StrLT(v, end)
    ELSE StrLT(end, v) /\ StrLE(v, start)

ValueOf(id) == StringOf(latest[id])

\* (value string, id) order
ValueIdLT(a, b) ==
    \/ StrLT(ValueOf(a), ValueOf(b))
    \/ ValueOf(a) = ValueOf(b) /\ StrLT(a, b)

Uninterrupted(c) == c.op \in QueryOps /\ ~c.q.cursor /\ c.q.limit = 0

\* C13: with no cursor and a visitor that always returns true, ScanRange
\* visits exactly the live ids with start <= id < end in ascending order,
\* or, descending, those with end < id <= start in descending order.
C13_ScanRange ==
    (call.op = "ScanRange" /\ Uninterrupted(call)) =>
        /\ {call.visited[n] : n \in 1..Len(call.visited)}
              = {id \in DOMAIN latest : InRange(call.q.desc, call.q.start, call.q.end, id)}
        /\ \A n \in 1..(Len(call.visited) - 1) :
              IF call.q.desc THEN StrLT(call.visited[n + 1], call.visited[n])
              ELSE StrLT(call.visited[n], call.visited[n + 1])

\* a descending range scan visited two ids and stopped at the live id end
C13_Witness ==
    /\ call.op = "ScanRange"
    /\ Uninterrupted(call)
    /\ call.q.desc
    /\ Len(call.visited) = 2
    /\ call.q.end \in DOMAIN latest
    /\ call.crossed

\* C14: with no cursor and a visitor that always returns true,
\* SearchValuesRange visits, in (value string, id) order of the direction,
\* exactly the non-spatial items whose value string v has start <= v < end
\* when ascending and end < v <= start when descending.
C14_SearchValuesRange ==
    (call.op = "SearchValuesRange" /\ Uninterrupted(call)) =>
        /\ {call.visited[n] : n \in 1..Len(call.visited)}
              = {id \in DOMAIN latest :
                    /\ ~objIsSpatial(latest[id])
                    /\ InRange(call.q.desc, call.q.start, call.q.end, ValueOf(id))}
        /\ \A n \in 1..(Len(call.visited) - 1) :
              IF call.q.desc THEN ValueIdLT(call.visited[n + 1], call.visited[n])
              ELSE ValueIdLT(call.visited[n], call.visited[n + 1])

\* C15: Within and Intersects with sparse > 0 hand no id to the visitor twice
\* in one call.
C15_SparseOnce ==
    (call.op \in QueryOps /\ IsSparse(call)) =>
        \A n, m \in 1..Len(call.visited) : n # m => call.visited[n] # call.visited[m]

\* a sparse search of the area whose four quadrants all hold a part of the
\* rectangle visited the rectangle and then, in a later quadrant, the point
C15_Witness ==
    /\ call.op \in QueryOps
    /\ IsSparse(call)
    /\ call.q.obj = RectObj(0, 0, 8, 8)
    /\ Len(call.visited) = 2
    /\ latest[call.visited[1]] = RectB
    /\ latest[call.visited[2]] = PointA

\* the resumed call started at the offset the cursor of the first call, which
\* its visitor stopped, had accumulated
AtCursorTotal(c) ==
    /\ c.resumed
    /\ RunQuery(col, c.first).vfalse
    /\ c.q.offset = CursorTotal(RunQuery(col, c.first).log)

\* C18: Within or Intersects run with a cursor and stopped by the visitor,
\* then run again with the offset the cursor accumulated, visit in all the
\* matches that one uninterrupted run from the first offset visits.
C18_GeoCursorLaw ==
    (call.op \in {"Within", "Intersects"} /\ AtCursorTotal(call)) =>
        call.prev \o call.visited
            = RunQuery(col, [call.first EXCEPT !.limit = 0]).visited

\* the leaf rectangles of a sparse search: the quadrants of the quadrants
RECURSIVE Leaves(_, _)
Leaves(rect, n) ==
    IF n = 0 THEN {rect}
    ELSE UNION {Leaves(Quads(rect)[i], n - 1) : i \in 1..4}

MatchesIn(q, rect) ==
    {e.item.id : e \in {x \in {RtSearch(col.index, rect)[n] :
                                  n \in 1..Len(RtSearch(col.index, rect))} :
                           Matches(q, x.item.obj)}}

\* C19: Within and Intersects with sparse > 0 skip a candidate that fails the
\* exact predicate and go on with the candidates of the leaf and with the
\* other quadrants; so when the visitor never returns false and nothing is
\* skipped by the offset, every leaf that holds a match has one of its matches
\* visited.
C19_SparseSkips ==
    (call.op \in QueryOps /\ IsSparse(call) /\ ~call.vfalse /\ call.q.offset = 0) =>
        \A leaf \in Leaves(Rect(call.q.obj), call.q.sparse) :
            MatchesIn(call.q, leaf) # {} =>
                MatchesIn(call.q, leaf)
                    \cap {call.visited[n] : n \in 1..Len(call.visited)} # {}

ExpectedSteps(q, count) ==
    (IF count % 256 = 255 THEN <<Ev("Gosched", count, <<>>)>> ELSE <<>>)
    \o (IF q.cursor THEN <<Ev("Step(1)", 1, <<>>)>> ELSE <<>>)

OpenProducers == {p \in DOMAIN producers : producers[p] = 0}

\* a call that began after an Expired() had returned true
LateCall(g) ==
    gor[g].late =>
        /\ ~gor[g].dialed
        /\ gor[g].sent = 0
        /\ gor[g].pc \notin {"dial", "send"}
        /\ gor[g].result # "none" =>
              gor[g].result = IF gor[g].op = "Expired" THEN "true" ELSE "errExpired"

\* C21: expiry is terminal under every interleaving of Send and Expired:
\* after an Expired() has returned true, every later Expired() returns true
\* and every later Send returns the expired error without dialing or
\* sending; an expired connection holds no producer and none is open; and
\* the connection is expired only when more than 30 seconds have passed
\* since creation or the last Send that was not refused as expired.
C21_ExpiryTerminal ==
    /\ \A g \in Goroutines : LateCall(g)
    /\ seen.returnedTrue => kafkaConn.ex
    /\ kafkaConn.ex => kafkaConn.conn = 0 /\ OpenProducers = {}
    /\ kafkaConn.ex => now - seen.attempt > kafkaExpiresAfter
    /\ \A g \in Goroutines :
          gor[g].result = "true" => now - seen.attempt > kafkaExpiresAfter

\* a Send and an Expired, both begun after an Expired() had returned true on
\* a connection that had held a producer, have returned
C21_Witness ==
    /\ Len(producers) >= 1
    /\ \E g \in Goroutines :
          /\ gor[g].late
          /\ gor[g].op = "Send"
          /\ gor[g].pc = "idle"
          /\ gor[g].result = "errExpired"
    /\ \E g \in Goroutines :
          /\ gor[g].late
          /\ gor[g].op = "Expired"
          /\ gor[g].pc = "idle"
          /\ gor[g].result = "true"

\* a Send about to return, the mutex still held
SendReturning(g) == gor[g].op = "Send" /\ gor[g].pc = "unlock"

\* C22: a Send that fails in SendMessage or gets a negative offset has
\* closed its producer, holds none and has not expired the connection; no
\* message is sent after that until a producer is dialed: a Send that found
\* conn.conn nil sends on the producer it dialed itself; a Send that fails
\* in the TLS config or in dialing leaves conn.conn nil; at most one producer
\* is open, the one in conn.conn, and no producer is closed twice.
C22_SendFailure ==
    /\ \A g \in Goroutines :
          (SendReturning(g) /\ gor[g].result \in {"send error", "invalid kafka reply"}) =>
              /\ kafkaConn.conn = 0
              /\ ~kafkaConn.ex
              /\ producers[gor[g].sent] = 1
    /\ seen.broken => kafkaConn.conn = 0
    /\ \A g \in Goroutines :
          gor[g].pc = "send" => kafkaConn.conn # 0 /\ (gor[g].wasNil => gor[g].dialed)
    /\ \A g \in Goroutines :
          (SendReturning(g) /\ gor[g].sent # 0 /\ gor[g].wasNil) =>
              gor[g].dialed /\ gor[g].sent = Len(producers)
    /\ \A g \in Goroutines :
          (SendReturning(g) /\ gor[g].result \in {"tls error", "dial error"}) =>
              kafkaConn.conn = 0 /\ gor[g].sent = 0
    /\ OpenProducers = IF kafkaConn.conn = 0 THEN {} ELSE {kafkaConn.conn}
    /\ \A p \in DOMAIN producers : producers[p] <= 1

\* a Send has failed in SendMessage or on its offset, which closed the first
\* producer, and the next Send has dialed the second and sent on it
C22_Witness ==
    /\ Len(producers) = 2
    /\ producers[1] = 1
    /\ ~kafkaConn.ex
    /\ \E g \in Goroutines :
          /\ SendReturning(g)
          /\ gor[g].wasNil
          /\ gor[g].dialed
          /\ gor[g].sent = 2
          /\ gor[g].result = "nil"

====
